---- MODULE Spec2Model ----
\* Grow4Bot storefront: the purchase / wallet flow of server/routes.ts over the
\* record store of server/storage.ts (DatabaseStorage, mongoose backend).
\* Every HTTP request is a sequence of atomic steps, one per awaited store
\* call; the synchronous code that follows an await runs in the same step.
\* Requests interleave freely between their steps (no transaction, no lock).
EXTENDS Integers, Sequences, FiniteSets, TLC

\* ------------------------------------------------------------------ bounds
MaxReqs == 2                      \* request slots (requests in one behaviour)
MaxStock == 2                     \* longest initial stock list of a product
MaxCalls == 3                     \* registerRoutes calls in the life of a process

Reqs == 1..MaxReqs

\* ------------------------------------------------------------ the universe
UserIds == {"admin", "alice"}     \* User documents of the store
NoSession == "none"               \* req.session.userId is undefined

\* The session documents live in their own collection ("sessions"), so a
\* session can name a user id that has no User document; the handlers test for
\* it (`if (!user)`). The same id stands for a path parameter naming no user.
OrphanSession == "gone"

\* ids a path can name: the User documents and an id with no document
TargetIds == UserIds \cup {OrphanSession}
ProductIds == {"p1", "p2"}        \* p2 is an id with no Product document
Keys == <<"K1", "K2", "K3">>      \* pairwise distinct stock items
Price == 5                        \* price of p1 (integer currency units)
InitBalances == {Price, 2 * Price}  \* alice can pay for one or two items
Amounts == {0, Price}             \* request body amounts: 0 is invalid

\* JSON.parse of a number literal beyond the double range ("1e999") is the
\* double Infinity: an integer above every finite amount of the model, which
\* JsAdd keeps absorbing as IEEE addition does
Infinity == 1000 * Price

\* The body of an admin product request: the members it has and their values
\* (price a number, stockData an array of strings). A member the body lacks
\* is undefined in the handler.
NoBody == [has |-> {}, name |-> "", price |-> 0, stockData |-> <<>>]
NameBody(n) == [NoBody EXCEPT !.has = {"name"}, !.name = n]
PriceBody(p) == [NoBody EXCEPT !.has = {"price"}, !.price = p]
StockBody(s) == [NoBody EXCEPT !.has = {"stockData"}, !.stockData = s]

\* PATCH bodies that rename or reprice a product
PricingBodies == {NameBody("n2"), PriceBody(Price + 1)}

\* PATCH bodies: those, a price of zero, a negative price, a replacement
\* stock list
UpdateBodies ==
    PricingBodies \cup {PriceBody(0), PriceBody(0 - Price), StockBody(<<Keys[3]>>)}

\* POST bodies: a name with a positive price, with a price of zero, and a body
\* without a price
NewProductBody(p) == [NameBody("n2") EXCEPT !.has = {"name", "price"}, !.price = p]
CreateBodies == {NewProductBody(Price), NewProductBody(0), NameBody("n2")}

\* the `amount` member of a JSON request body, with its typeof
JsonAmounts ==
    {[type |-> "number", value |-> v] : v \in {0 - Price, 0, Price, Infinity}}
        \cup {[type |-> "string", value |-> Price]}

NoProduct == [exists |-> FALSE, name |-> "", price |-> 0, stockData |-> <<>>]
\* the document slot of a deleted product: ObjectIds are never used again
DeletedProduct == [exists |-> FALSE, name |-> "(deleted)", price |-> 0, stockData |-> <<>>]
NoUser == [exists |-> FALSE, email |-> "", balance |-> 0, isAdmin |-> FALSE, isBanned |-> FALSE]
NoPurchase == [userId |-> "", productId |-> "", productName |-> "", price |-> 0, stockData |-> ""]

VARIABLES users, products, purchases, transactions, req,
          routesRegistered, registerPromise, registerCalls, installs

vars == <<users, products, purchases, transactions, req,
          routesRegistered, registerPromise, registerCalls, installs>>
store == <<users, products, purchases, transactions>>

\* The state of the serverless entry module (api/index.ts): its two module
\* variables, and two counters of what has been done to the Express app:
\*   registerPromise  "null", or the state of the promise: "pending", "fulfilled"
\*   registerCalls    how many times registerRoutes has been called
\*   installs         how many times registerRoutes has installed the session
\*                    middleware and the routes on the app
serverless == <<routesRegistered, registerPromise, registerCalls, installs>>

\* the process once registerRoutes has run: the state in which the routes
\* of server/routes.ts answer requests
Registered ==
    /\ routesRegistered = TRUE
    /\ registerPromise = "fulfilled"
    /\ registerCalls = 1
    /\ installs = 1

\* --------------------------------------------------------- pure helpers
Range(s) == {s[i] : i \in 1..Len(s)}

\* Array.prototype.slice(1)
Slice1(s) == IF s = <<>> THEN <<>> ELSE Tail(s)

\* the purchase handler's stockItem / newStockData
StockItem(stockData) == stockData[1]

\* mutant of NewStockData: the list is written back without the slice
NewStockData_NoSlice(stockData) == stockData

NewStockData(stockData) == Slice1(stockData)

\* mutant of InsufficientBalance: <= in place of <
InsufficientBalance_Le(balance, price) == balance <= price

\* mutant of InsufficientBalance: the pre-check is skipped
InsufficientBalance_Never(balance, price) == FALSE

\* the purchase handler's balance pre-check (true = rejected)
InsufficientBalance(balance, price) == balance < price

\* mutant of PurchaseCheck: the balance check placed before the stock check
PurchaseCheck_BalanceFirst(product, balance) ==
    IF ~product.exists THEN <<404, "Product not found">>
    ELSE IF InsufficientBalance(balance, product.price) THEN <<400, "Insufficient balance">>
    ELSE IF product.stockData = <<>> THEN <<400, "Product is out of stock">>
    ELSE <<0, "">>

\* the purchase handler's checks on the product it read (lines 177-187):
\* <<0, "">> when all pass, else the status and message of the response
PurchaseCheck(product, balance) ==
    IF ~product.exists THEN <<404, "Product not found">>
    ELSE IF product.stockData = <<>> THEN <<400, "Product is out of stock">>
    ELSE IF InsufficientBalance(balance, product.price) THEN <<400, "Insufficient balance">>
    ELSE <<0, "">>

\* mutant of PurchaseNewBalance: the price is debited twice
PurchaseNewBalance_Double(balance, price) == balance - 2 * price

\* the + of two doubles of which neither is -Infinity or NaN
JsAdd(a, b) == IF a = Infinity \/ b = Infinity THEN Infinity ELSE a + b

\* const newBalance = user.balance - product.price
PurchaseNewBalance(balance, price) == IF balance = Infinity THEN Infinity ELSE balance - price

\* mutant of TopUpNewBalance: the balance is set to the amount
TopUpNewBalance_Set(balance, amount) == amount

\* const newBalance = user.balance + amount
TopUpNewBalance(balance, amount) == JsAdd(balance, amount)

\* amount <= 0, for an amount whose typeof is "number"
InvalidAmount(amount) == amount <= 0

\* typeof amount !== "number" || amount <= 0
InvalidAmountBody(body) == body.type # "number" \/ InvalidAmount(body.value)

\* ------------------------------------------------------------ the store
\* storage.getUser
getUser(id) == IF id \in UserIds THEN users[id] ELSE NoUser

\* storage.getProduct / toProduct
getProduct(id) == products[id]

\* storage.updateProductStock: findByIdAndUpdate(id, { stockData })
updateProductStock(id, stockData) ==
    IF products[id].exists
    THEN [products EXCEPT ![id].stockData = stockData]
    ELSE products

\* storage.updateUserBalance: findByIdAndUpdate(id, { balance })
updateUserBalance(id, balance) ==
    IF id \in UserIds /\ users[id].exists
    THEN [users EXCEPT ![id].balance = balance]
    ELSE users

\* mutant of updateUserBanned: the update also resets the balance
updateUserBanned_Reset(id, banned) ==
    IF id \in UserIds /\ users[id].exists
    THEN [users EXCEPT ![id].isBanned = banned, ![id].balance = 0]
    ELSE users

\* storage.updateUserBanned: findByIdAndUpdate(id, { isBanned: banned })
updateUserBanned(id, banned) ==
    IF id \in UserIds /\ users[id].exists
    THEN [users EXCEPT ![id].isBanned = banned]
    ELSE users

\* storage.getUserByEmail: findOne({ email }), as "some document matches"
getUserByEmail(email) == \E u \in UserIds : users[u].exists /\ users[u].email = email

\* the unique index on email (UserSchema: unique: true): an insert of an
\* address that a document holds throws a duplicate key error (E11000)
EmailIndexRejects(email) == getUserByEmail(email)

\* mutant of IsAdminEmail: every registered user is an admin
IsAdminEmail_Any(email) == TRUE

\* const isAdmin = email === "admin@grow4bot.com"
IsAdminEmail(email) == email = "admin@grow4bot.com"

\* storage.createUser: UserModel.create({ email, password, isAdmin:
\* insertUser.isAdmin || false, balance: 0, isBanned: false }); the new
\* document takes an id that no document has
createUser(id, email, isAdmin) ==
    [users EXCEPT ![id] = [exists |-> TRUE, email |-> email, balance |-> 0,
                           isAdmin |-> isAdmin, isBanned |-> FALSE]]

\* storage.getAllProducts: every Product document, stockData included
getAllProducts == {products[p] : p \in {q \in ProductIds : products[q].exists}}

\* storage.createProduct: ProductModel.create, stockData defaulting to [].
\* The new document takes an id that no document ever had.
createProduct(id, body) ==
    [products EXCEPT ![id] = [exists |-> TRUE, name |-> body.name, price |-> body.price,
                              stockData |-> body.stockData]]

\* storage.updateProduct: findByIdAndUpdate(id, product, { new: true }); the
\* members that are undefined are not part of the update
updateProduct(id, body) ==
    IF ~products[id].exists THEN products
    ELSE [products EXCEPT
            ![id].name = IF "name" \in body.has THEN body.name ELSE @,
            ![id].price = IF "price" \in body.has THEN body.price ELSE @,
            ![id].stockData = IF "stockData" \in body.has THEN body.stockData ELSE @]

\* storage.deleteProduct: findByIdAndDelete(id)
deleteProduct(id) ==
    IF products[id].exists THEN [products EXCEPT ![id] = DeletedProduct] ELSE products

\* storage.createPurchase
createPurchase(r, p) == Append(purchases, p @@ [by |-> r])

\* mutant of createTransaction: the new record replaces the ledger
createTransaction_Overwrite(r, userId, type, amount, description) ==
    <<[userId |-> userId, type |-> type, amount |-> amount,
       description |-> description, by |-> r]>>

\* storage.createTransaction
createTransaction(r, userId, type, amount, description) ==
    Append(transactions, [userId |-> userId, type |-> type, amount |-> amount,
                          description |-> description, by |-> r])

\* the documents of a collection that find({ userId }) matches, in the
\* order of their creation
RECURSIVE FindByUser(_, _)
FindByUser(docs, userId) ==
    IF docs = <<>> THEN <<>>
    ELSE (IF Head(docs).userId = userId THEN <<Head(docs)>> ELSE <<>>)
             \o FindByUser(Tail(docs), userId)

\* sort({ purchaseDate: -1 }) / sort({ createdAt: -1 }) of documents that are
\* in the order of their creation: the latest first
RECURSIVE SortNewestFirst(_)
SortNewestFirst(docs) ==
    IF docs = <<>> THEN <<>> ELSE SortNewestFirst(Tail(docs)) \o <<Head(docs)>>

\* storage.getUserPurchases
getUserPurchases(userId) == SortNewestFirst(FindByUser(purchases, userId))

\* mutant of getUserTransactions: the query has no userId filter
getUserTransactions_All(userId) == SortNewestFirst(transactions)

\* storage.getUserTransactions
getUserTransactions(userId) == SortNewestFirst(FindByUser(transactions, userId))

\* ------------------------------------------------------------ requests
\* pc = "idle": the slot has not been used; "done": a response was sent.
\* A request rejected by requireAuth / requireAdmin never runs its handler, so
\* the handler's locals (pid, amount, target, banned) keep their idle values.
\* amountType, bannedType: typeof req.body.amount, typeof req.body.banned.
\* body: req.body of an admin product request.
\* user, product: the handler's local snapshots (copies of the store at the
\* moment of the read). stockData, balance: fields of the response body.
\* email: req.body.email of a register request.
\* list: the array of a GET /api/purchases or /api/transactions response.
\* History fields, written but never read by the handlers:
\*   error        the exception the handler's catch block caught, if any
\*   seen         the number of documents in the collection when it was read
\*   writes       the store mutations this request has applied
\*   banned0      the stored isBanned flag of the session user at arrival
\*   stock0       the stored stock list of the target product at arrival
\*   stockAfter   the stored stock list right after this request's stock write
\*   balanceAfter the stored balance right after this request's balance write
IdleReq == [kind |-> "none", pc |-> "idle", sess |-> NoSession, pid |-> "p1",
            target |-> "admin", amount |-> 0, amountType |-> "number", banned |-> FALSE,
            bannedType |-> "boolean", body |-> NoBody, list |-> <<>>, seen |-> 0,
            email |-> "", error |-> "",
            user |-> NoUser, product |-> NoProduct,
            stockItem |-> "", newBalance |-> 0, purchase |-> NoPurchase,
            status |-> 0, message |-> "", stockData |-> {}, balance |-> 0,
            writes |-> {}, banned0 |-> FALSE, stock0 |-> <<>>,
            stockAfter |-> <<>>, balanceAfter |-> 0]

\* res.status(s).json({ message }) : the terminal response of request r
Respond(q, r, s, m) == [q EXCEPT ![r].pc = "done", ![r].status = s, ![r].message = m]

Sessions == UserIds \cup {NoSession}

\* a request arrives in the lowest unused slot (slots are interchangeable)
Arrives(r) == req[r].pc = "idle" /\ (IF r = 1 THEN TRUE ELSE req[r - 1].pc # "idle")

\* p1 starts with one to MaxStock items; the empty list is reached by purchases
InitStocks == {SubSeq(Keys, 1, n) : n \in 1..MaxStock}

\* A user document is created with balance 0; a positive initial balance is
\* the result of an earlier top-up, whose Transaction record is in the ledger.
InitTransactions(b) ==
    IF b > 0
    THEN <<[userId |-> "alice", type |-> "topup", amount |-> b,
            description |-> <<"Topped up wallet with", b>>, by |-> 0]>>
    ELSE <<>>

\* the e-mail address a user registered with; the admin's is the one address
\* that registration gives isAdmin
AdminEmail == "admin@grow4bot.com"
Email(u) == IF u = "admin" THEN AdminEmail ELSE "alice@example.com"

Init ==
    /\ \E b \in InitBalances :
         /\ users = [u \in UserIds |->
                        [exists |-> TRUE, email |-> Email(u),
                         balance |-> IF u = "alice" THEN b ELSE 0,
                         isAdmin |-> (u = "admin"), isBanned |-> FALSE]]
         /\ transactions = InitTransactions(b)
    /\ \E s \in InitStocks :
         products = [p \in ProductIds |->
                        IF p = "p1"
                        THEN [exists |-> TRUE, name |-> "n1", price |-> Price, stockData |-> s]
                        ELSE NoProduct]
    /\ purchases = <<>>
    /\ req = [r \in Reqs |-> IdleReq]
    /\ Registered

\* ---------------------------------------- POST /api/products/:id/purchase
\* mutant of UserBanned: the ban check is skipped
UserBanned_Never(user) == FALSE

\* `if (user.isBanned)`: the ban check, on the user document just read
UserBanned(user) == user.isBanned

\* requireAuth, then the handler up to and including `await getUser` and
\* the two checks on its result. ok = FALSE: the store call throws.
PurchaseGetUser(r, s, p, ok) ==
    /\ Arrives(r)
    /\ s = NoSession => ok          \* no store call is made, none can throw
    /\ LET user == getUser(s)
           q == [req EXCEPT ![r].kind = "purchase", ![r].sess = s, ![r].pid = p,
                            ![r].banned0 = user.isBanned,
                            ![r].stock0 = products[p].stockData]
       IN  req' =
             IF s = NoSession
             THEN Respond([req EXCEPT ![r].kind = "purchase"], r, 401, "Unauthorized")
             ELSE IF ~ok THEN Respond(q, r, 500, "Purchase failed")
             ELSE IF ~user.exists
             THEN Respond([q EXCEPT ![r].user = user], r, 404, "User not found")
             ELSE IF UserBanned(user)
             THEN Respond([q EXCEPT ![r].user = user], r, 403, "Your account has been banned")
             ELSE [q EXCEPT ![r].pc = "getProduct", ![r].user = user]
    /\ UNCHANGED <<store, serverless>>

\* `await getProduct` and the checks and assignments of lines 177-190
PurchaseGetProduct(r, ok) ==
    /\ req[r].kind = "purchase" /\ req[r].pc = "getProduct"
    /\ LET product == getProduct(req[r].pid)
           check == PurchaseCheck(product, req[r].user.balance)
           q == [req EXCEPT ![r].product = product]
       IN  req' =
             IF ~ok THEN Respond(req, r, 500, "Purchase failed")
             ELSE IF check[1] # 0 THEN Respond(q, r, check[1], check[2])
             ELSE [q EXCEPT ![r].pc = "updateStock",
                            ![r].stockItem = StockItem(product.stockData)]
    /\ UNCHANGED <<store, serverless>>

\* `await updateProductStock(id, newStockData)`, then newBalance
PurchaseUpdateStock(r, ok) ==
    /\ req[r].kind = "purchase" /\ req[r].pc = "updateStock"
    /\ IF ~ok
       THEN /\ req' = Respond(req, r, 500, "Purchase failed")
            /\ UNCHANGED <<store, serverless>>
       ELSE /\ products' = updateProductStock(req[r].pid, NewStockData(req[r].product.stockData))
            /\ req' = [req EXCEPT ![r].pc = "updateBalance",
                                  ![r].newBalance = PurchaseNewBalance(req[r].user.balance, req[r].product.price),
                                  ![r].writes = @ \cup {"stock"},
                                  ![r].stockAfter = products'[req[r].pid].stockData]
            /\ UNCHANGED <<users, purchases, transactions, serverless>>

\* `await updateUserBalance(userId, newBalance)`
PurchaseUpdateBalance(r, ok) ==
    /\ req[r].kind = "purchase" /\ req[r].pc = "updateBalance"
    /\ IF ~ok
       THEN /\ req' = Respond(req, r, 500, "Purchase failed")
            /\ UNCHANGED <<store, serverless>>
       ELSE /\ users' = updateUserBalance(req[r].sess, req[r].newBalance)
            /\ req' = [req EXCEPT ![r].pc = "createPurchase",
                                  ![r].writes = @ \cup {"balance"},
                                  ![r].balanceAfter = users'[req[r].sess].balance]
            /\ UNCHANGED <<products, purchases, transactions, serverless>>

\* mutant of RecordedPrice: the price is read from the store again when the
\* record is written
RecordedPrice_Reread(r) == products[req[r].pid].price

\* `price: product.price` of the Purchase record: the price of the product
\* document the handler read
RecordedPrice(r) == req[r].product.price

\* `await createPurchase({...})`
PurchaseCreatePurchase(r, ok) ==
    /\ req[r].kind = "purchase" /\ req[r].pc = "createPurchase"
    /\ IF ~ok
       THEN /\ req' = Respond(req, r, 500, "Purchase failed")
            /\ UNCHANGED <<store, serverless>>
       ELSE LET p == [userId |-> req[r].sess, productId |-> req[r].pid,
                      productName |-> req[r].product.name,
                      price |-> RecordedPrice(r),
                      stockData |-> req[r].stockItem]
            IN  /\ purchases' = createPurchase(r, p)
                /\ req' = [req EXCEPT ![r].pc = "createTransaction", ![r].purchase = p,
                                      ![r].writes = @ \cup {"purchase"}]
                /\ UNCHANGED <<users, products, transactions, serverless>>

\* `await createTransaction({...})`, then res.json({ purchase, stockData })
PurchaseCreateTransaction(r, ok) ==
    /\ req[r].kind = "purchase" /\ req[r].pc = "createTransaction"
    /\ IF ~ok
       THEN /\ req' = Respond(req, r, 500, "Purchase failed")
            /\ UNCHANGED <<store, serverless>>
       ELSE /\ transactions' = createTransaction(r, req[r].sess, "purchase", req[r].product.price,
                                                 <<"Purchased", req[r].product.name>>)
            /\ req' = [req EXCEPT ![r].pc = "done", ![r].status = 200,
                                  ![r].stockData = {req[r].stockItem},
                                  ![r].writes = @ \cup {"transaction"}]
            /\ UNCHANGED <<users, products, purchases, serverless>>

\* ------------------------------------------------- POST /api/wallet/topup
\* requireAuth, the amount check, `await getUser`, then newBalance
TopUpGetUser(r, s, amount, ok) ==
    /\ Arrives(r)
    /\ (s = NoSession \/ InvalidAmount(amount)) => ok   \* no store call is made
    /\ LET user == getUser(s)
           q == [req EXCEPT ![r].kind = "topup", ![r].sess = s, ![r].amount = amount,
                            ![r].banned0 = user.isBanned]
       IN  req' =
             IF s = NoSession
             THEN Respond([req EXCEPT ![r].kind = "topup"], r, 401, "Unauthorized")
             ELSE IF InvalidAmount(amount) THEN Respond(q, r, 400, "Invalid amount")
             ELSE IF ~ok THEN Respond(q, r, 500, "Top up failed")
             ELSE IF ~user.exists
             THEN Respond([q EXCEPT ![r].user = user], r, 404, "User not found")
             ELSE [q EXCEPT ![r].pc = "updateBalance", ![r].user = user,
                            ![r].newBalance = TopUpNewBalance(user.balance, amount)]
    /\ UNCHANGED <<store, serverless>>

\* `await updateUserBalance(userId, newBalance)`
TopUpUpdateBalance(r, ok) ==
    /\ req[r].kind = "topup" /\ req[r].pc = "updateBalance"
    /\ IF ~ok
       THEN /\ req' = Respond(req, r, 500, "Top up failed")
            /\ UNCHANGED <<store, serverless>>
       ELSE /\ users' = updateUserBalance(req[r].sess, req[r].newBalance)
            /\ req' = [req EXCEPT ![r].pc = "createTransaction",
                                  ![r].writes = @ \cup {"balance"},
                                  ![r].balanceAfter = users'[req[r].sess].balance]
            /\ UNCHANGED <<products, purchases, transactions, serverless>>

\* `await createTransaction({...})`, then res.json({ balance: newBalance })
TopUpCreateTransaction(r, ok) ==
    /\ req[r].kind = "topup" /\ req[r].pc = "createTransaction"
    /\ IF ~ok
       THEN /\ req' = Respond(req, r, 500, "Top up failed")
            /\ UNCHANGED <<store, serverless>>
       ELSE /\ transactions' = createTransaction(r, req[r].sess, "topup", req[r].amount,
                                                 <<"Topped up wallet with", req[r].amount>>)
            /\ req' = [req EXCEPT ![r].pc = "done", ![r].status = 200,
                                  ![r].balance = req[r].newBalance,
                                  ![r].writes = @ \cup {"transaction"}]
            /\ UNCHANGED <<users, products, purchases, serverless>>

\* POST /api/wallet/topup with any JSON value as amount: a value that is not
\* a number fails the typeof test of line 246, a number takes TopUpGetUser
TopUpBody(r, s, body, ok) ==
    IF body.type = "number"
    THEN TopUpGetUser(r, s, body.value, ok)
    ELSE /\ Arrives(r) /\ ok
         /\ req' = IF s = NoSession
                    THEN Respond([req EXCEPT ![r].kind = "topup"], r, 401, "Unauthorized")
                    ELSE Respond([req EXCEPT ![r].kind = "topup", ![r].sess = s,
                                             ![r].amount = body.value,
                                             ![r].amountType = body.type,
                                             ![r].banned0 = getUser(s).isBanned],
                                 r, 400, "Invalid amount")
         /\ UNCHANGED <<store, serverless>>

\* ----------------------------------------------------------- requireAdmin
\* mutant of IsAdminUser: any existing user passes
IsAdminUser_Any(user) == user.exists

\* the negation of `!user?.isAdmin`
IsAdminUser(user) == user.exists /\ user.isAdmin

\* ------------------------------------------ PATCH /api/admin/users/:id/ban
\* requireAdmin: the session check, `await getUser`, the isAdmin check
BanRequireAdmin(r, s, target, banned) ==
    /\ Arrives(r)
    /\ LET user == getUser(s)
           q == [req EXCEPT ![r].kind = "ban", ![r].sess = s, ![r].target = target,
                            ![r].banned = banned, ![r].banned0 = user.isBanned]
       IN  req' =
             IF s = NoSession
             THEN Respond([req EXCEPT ![r].kind = "ban"], r, 401, "Unauthorized")
             ELSE IF ~IsAdminUser(user)
             THEN Respond([req EXCEPT ![r].kind = "ban", ![r].sess = s], r, 403,
                          "Forbidden - Admin access required")
             ELSE [q EXCEPT ![r].pc = "updateBanned"]
    /\ UNCHANGED <<store, serverless>>

\* the handler: `await updateUserBanned(id, banned)` and the response
BanUpdateUserBanned(r, ok) ==
    /\ req[r].kind = "ban" /\ req[r].pc = "updateBanned"
    /\ IF ~ok
       THEN /\ req' = Respond(req, r, 500, "Failed to update user")
            /\ UNCHANGED <<store, serverless>>
       ELSE /\ users' = updateUserBanned(req[r].target, req[r].banned)
            /\ req' = IF getUser(req[r].target).exists
                      THEN [req EXCEPT ![r].pc = "done", ![r].status = 200,
                                       ![r].writes = @ \cup {"banned"}]
                      ELSE Respond(req, r, 404, "User not found")
            /\ UNCHANGED <<products, purchases, transactions, serverless>>

\* the `banned` member of a JSON request body, with its typeof
BannedBodies ==
    {[type |-> "boolean", value |-> b] : b \in BOOLEAN} \cup {[type |-> "string", value |-> TRUE]}

\* PATCH /api/admin/users/:id/ban with any JSON value as banned: a boolean
\* takes BanRequireAdmin; any other value passes requireAdmin and then fails
\* the typeof test of line 288
BanBody(r, s, target, body) ==
    IF body.type = "boolean"
    THEN BanRequireAdmin(r, s, target, body.value)
    ELSE /\ Arrives(r)
         /\ req' = IF s = NoSession
                    THEN Respond([req EXCEPT ![r].kind = "ban"], r, 401, "Unauthorized")
                    ELSE IF ~IsAdminUser(getUser(s))
                    THEN Respond([req EXCEPT ![r].kind = "ban", ![r].sess = s], r, 403,
                                 "Forbidden - Admin access required")
                    ELSE Respond([req EXCEPT ![r].kind = "ban", ![r].sess = s,
                                             ![r].target = target,
                                             ![r].banned = body.value,
                                             ![r].bannedType = body.type,
                                             ![r].banned0 = getUser(s).isBanned],
                                 r, 400, "Invalid banned value")
         /\ UNCHANGED <<store, serverless>>

\* -------------------------------------- POST /api/admin/users/:id/balance
\* requireAdmin (the session check, `await getUser`, the isAdmin check), then
\* the handler up to its first await: the amount check
AddBalanceRequireAdmin(r, s, target, body) ==
    /\ Arrives(r)
    /\ LET user == getUser(s)
           q == [req EXCEPT ![r].kind = "addBalance", ![r].sess = s, ![r].target = target,
                            ![r].amount = body.value, ![r].amountType = body.type,
                            ![r].banned0 = user.isBanned]
       IN  req' =
             IF s = NoSession
             THEN Respond([req EXCEPT ![r].kind = "addBalance"], r, 401, "Unauthorized")
             ELSE IF ~IsAdminUser(user)
             THEN Respond([req EXCEPT ![r].kind = "addBalance", ![r].sess = s], r, 403,
                          "Forbidden - Admin access required")
             ELSE IF InvalidAmountBody(body) THEN Respond(q, r, 400, "Invalid amount")
             ELSE [q EXCEPT ![r].pc = "getUser"]
    /\ UNCHANGED <<store, serverless>>

\* `await getUser(id)`, the check on its result, then newBalance
AddBalanceGetUser(r, ok) ==
    /\ req[r].kind = "addBalance" /\ req[r].pc = "getUser"
    /\ LET user == getUser(req[r].target)
       IN  req' =
             IF ~ok THEN Respond(req, r, 500, "Failed to add balance")
             ELSE IF ~user.exists
             THEN Respond([req EXCEPT ![r].user = user], r, 404, "User not found")
             ELSE [req EXCEPT ![r].pc = "updateBalance", ![r].user = user,
                              ![r].newBalance = TopUpNewBalance(user.balance, req[r].amount)]
    /\ UNCHANGED <<store, serverless>>

\* `await updateUserBalance(id, newBalance)`
AddBalanceUpdateBalance(r, ok) ==
    /\ req[r].kind = "addBalance" /\ req[r].pc = "updateBalance"
    /\ IF ~ok
       THEN /\ req' = Respond(req, r, 500, "Failed to add balance")
            /\ UNCHANGED <<store, serverless>>
       ELSE /\ users' = updateUserBalance(req[r].target, req[r].newBalance)
            /\ req' = [req EXCEPT ![r].pc = "createTransaction",
                                  ![r].writes = @ \cup {"balance"},
                                  ![r].balanceAfter = users'[req[r].target].balance]
            /\ UNCHANGED <<products, purchases, transactions, serverless>>

\* `await createTransaction({ userId: id, ... })`, then res.json({ balance })
AddBalanceCreateTransaction(r, ok) ==
    /\ req[r].kind = "addBalance" /\ req[r].pc = "createTransaction"
    /\ IF ~ok
       THEN /\ req' = Respond(req, r, 500, "Failed to add balance")
            /\ UNCHANGED <<store, serverless>>
       ELSE /\ transactions' = createTransaction(r, req[r].target,
                                                 "admin_add", req[r].amount,
                                                 <<"Admin added to wallet", req[r].amount>>)
            /\ req' = [req EXCEPT ![r].pc = "done", ![r].status = 200,
                                  ![r].balance = req[r].newBalance,
                                  ![r].writes = @ \cup {"transaction"}]
            /\ UNCHANGED <<users, products, purchases, serverless>>

\* ------------------------------- GET /api/purchases, GET /api/transactions
\* requireAuth, `await getUserPurchases(userId)`, then res.json(purchases)
GetPurchases(r, s, ok) ==
    /\ Arrives(r)
    /\ s = NoSession => ok
    /\ LET q == [req EXCEPT ![r].kind = "purchases", ![r].sess = s]
       IN  req' =
             IF s = NoSession
             THEN Respond([req EXCEPT ![r].kind = "purchases"], r, 401, "Unauthorized")
             ELSE IF ~ok THEN Respond(q, r, 500, "Failed to fetch purchases")
             ELSE [q EXCEPT ![r].pc = "done", ![r].status = 200,
                            ![r].list = getUserPurchases(s),
                            ![r].seen = Len(purchases)]
    /\ UNCHANGED <<store, serverless>>

\* requireAuth, `await getUserTransactions(userId)`, then res.json(transactions)
GetTransactions(r, s, ok) ==
    /\ Arrives(r)
    /\ s = NoSession => ok
    /\ LET q == [req EXCEPT ![r].kind = "transactions", ![r].sess = s]
       IN  req' =
             IF s = NoSession
             THEN Respond([req EXCEPT ![r].kind = "transactions"], r, 401, "Unauthorized")
             ELSE IF ~ok THEN Respond(q, r, 500, "Failed to fetch transactions")
             ELSE [q EXCEPT ![r].pc = "done", ![r].status = 200,
                            ![r].list = getUserTransactions(s),
                            ![r].seen = Len(transactions)]
    /\ UNCHANGED <<store, serverless>>

\* ---------------------------------------------- the admin product routes
\* requireAdmin for a request of the given kind: the response of a caller
\* that is refused, else the request record q the handler starts from
RequireAdmin(kind, r, s, q) ==
    IF s = NoSession
    THEN Respond([req EXCEPT ![r].kind = kind], r, 401, "Unauthorized")
    ELSE IF ~IsAdminUser(getUser(s))
    THEN Respond([req EXCEPT ![r].kind = kind, ![r].sess = s], r, 403,
                 "Forbidden - Admin access required")
    ELSE q

\* insertProductSchema.safeParse: name: z.string().min(1), price:
\* z.number().positive(); the other members are optional
InsertProductValid(body) ==
    /\ "name" \in body.has /\ body.name # ""
    /\ "price" \in body.has /\ body.price > 0

\* POST /api/admin/products: requireAdmin, then safeParse
ProductCreateRequireAdmin(r, s, body) ==
    /\ Arrives(r)
    /\ LET q == [req EXCEPT ![r].kind = "createProduct", ![r].sess = s, ![r].body = body]
       IN  req' = RequireAdmin("createProduct", r, s,
                      IF ~InsertProductValid(body) THEN Respond(q, r, 400, "Invalid input")
                      ELSE [q EXCEPT ![r].pc = "createProduct"])
    /\ UNCHANGED <<store, serverless>>

\* `await createProduct(parseResult.data)`, then res.status(201)
ProductCreate(r, id, ok) ==
    /\ req[r].kind = "createProduct" /\ req[r].pc = "createProduct"
    /\ products[id] = NoProduct
    /\ IF ~ok
       THEN /\ req' = Respond(req, r, 500, "Failed to create product")
            /\ UNCHANGED <<store, serverless>>
       ELSE /\ products' = createProduct(id, req[r].body)
            /\ req' = [req EXCEPT ![r].pc = "done", ![r].status = 201, ![r].pid = id,
                                  ![r].writes = @ \cup {"product"}]
            /\ UNCHANGED <<users, purchases, transactions, serverless>>

\* PATCH /api/admin/products/:id: requireAdmin; the body is not validated
ProductUpdateRequireAdmin(r, s, id, body) ==
    /\ Arrives(r)
    /\ req' = RequireAdmin("updateProduct", r, s,
                  [req EXCEPT ![r].kind = "updateProduct", ![r].sess = s, ![r].pid = id,
                              ![r].body = body, ![r].pc = "updateProduct"])
    /\ UNCHANGED <<store, serverless>>

\* `await updateProduct(id, {...})`, then the response
ProductUpdate(r, ok) ==
    /\ req[r].kind = "updateProduct" /\ req[r].pc = "updateProduct"
    /\ IF ~ok
       THEN /\ req' = Respond(req, r, 500, "Failed to update product")
            /\ UNCHANGED <<store, serverless>>
       ELSE /\ products' = updateProduct(req[r].pid, req[r].body)
            /\ req' = IF products[req[r].pid].exists
                      THEN [req EXCEPT ![r].pc = "done", ![r].status = 200,
                                       ![r].writes = @ \cup {"product"}]
                      ELSE Respond(req, r, 404, "Product not found")
            /\ UNCHANGED <<users, purchases, transactions, serverless>>

\* DELETE /api/admin/products/:id: requireAdmin
ProductDeleteRequireAdmin(r, s, id) ==
    /\ Arrives(r)
    /\ req' = RequireAdmin("deleteProduct", r, s,
                  [req EXCEPT ![r].kind = "deleteProduct", ![r].sess = s, ![r].pid = id,
                              ![r].pc = "deleteProduct"])
    /\ UNCHANGED <<store, serverless>>

\* `await deleteProduct(id)`, then res.json({ message: "Product deleted" })
ProductDelete(r, ok) ==
    /\ req[r].kind = "deleteProduct" /\ req[r].pc = "deleteProduct"
    /\ IF ~ok
       THEN /\ req' = Respond(req, r, 500, "Failed to delete product")
            /\ UNCHANGED <<store, serverless>>
       ELSE /\ products' = deleteProduct(req[r].pid)
            /\ req' = [req EXCEPT ![r].pc = "done", ![r].status = 200,
                                  ![r].message = "Product deleted",
                                  ![r].writes = @ \cup {"product"}]
            /\ UNCHANGED <<users, purchases, transactions, serverless>>

\* ------------------------------------------------------ GET /api/products
\* no auth middleware: `await getAllProducts()`, then res.json(products)
GetProducts(r, s, ok) ==
    /\ Arrives(r)
    /\ LET q == [req EXCEPT ![r].kind = "products", ![r].sess = s]
       IN  req' =
             IF ~ok THEN Respond(q, r, 500, "Failed to fetch products")
             ELSE [q EXCEPT ![r].pc = "done", ![r].status = 200,
                            ![r].stockData = UNION {Range(p.stockData) : p \in getAllProducts}]
    /\ UNCHANGED <<store, serverless>>

Next ==
    \E r \in Reqs :
        \/ \E s \in Sessions, p \in ProductIds, ok \in BOOLEAN : PurchaseGetUser(r, s, p, ok)
        \/ \E ok \in BOOLEAN : PurchaseGetProduct(r, ok)
        \/ \E ok \in BOOLEAN : PurchaseUpdateStock(r, ok)
        \/ \E ok \in BOOLEAN : PurchaseUpdateBalance(r, ok)
        \/ \E ok \in BOOLEAN : PurchaseCreatePurchase(r, ok)
        \/ \E ok \in BOOLEAN : PurchaseCreateTransaction(r, ok)
        \/ \E s \in Sessions, a \in Amounts, ok \in BOOLEAN : TopUpGetUser(r, s, a, ok)
        \/ \E ok \in BOOLEAN : TopUpUpdateBalance(r, ok)
        \/ \E ok \in BOOLEAN : TopUpCreateTransaction(r, ok)
        \/ \E s \in Sessions, t \in UserIds, b \in BOOLEAN : BanRequireAdmin(r, s, t, b)
        \/ \E ok \in BOOLEAN : BanUpdateUserBanned(r, ok)

\* The ledger: every handler that writes the store.
Spec == Init /\ [][Next]_vars

\* The ledger together with the product listing, which only reads the store.
NextListing ==
    \/ Next
    \/ \E r \in Reqs, s \in Sessions, ok \in BOOLEAN : GetProducts(r, s, ok)

SpecListing == Init /\ [][NextListing]_vars

\* ------------------------------------------- sessions that outlive the user
NextOrphan ==
    \/ Next
    \/ \E r \in Reqs, p \in ProductIds, ok \in BOOLEAN : PurchaseGetUser(r, OrphanSession, p, ok)

\* The ledger, with Purchase requests of an orphan session.
SpecOrphan == Init /\ [][NextOrphan]_vars

\* ------------------------------------------------- the caller's own wallet
\* purchases and top-ups: the two handlers a user runs on their own balance
NextWallet ==
    \E r \in Reqs :
        \/ \E s \in Sessions, p \in ProductIds, ok \in BOOLEAN : PurchaseGetUser(r, s, p, ok)
        \/ \E ok \in BOOLEAN : PurchaseGetProduct(r, ok)
        \/ \E ok \in BOOLEAN : PurchaseUpdateStock(r, ok)
        \/ \E ok \in BOOLEAN : PurchaseUpdateBalance(r, ok)
        \/ \E ok \in BOOLEAN : PurchaseCreatePurchase(r, ok)
        \/ \E ok \in BOOLEAN : PurchaseCreateTransaction(r, ok)
        \/ \E s \in Sessions, a \in Amounts, ok \in BOOLEAN : TopUpGetUser(r, s, a, ok)
        \/ \E ok \in BOOLEAN : TopUpUpdateBalance(r, ok)
        \/ \E ok \in BOOLEAN : TopUpCreateTransaction(r, ok)

SpecWallet == Init /\ [][NextWallet]_vars

\* ---------------------------------------------------------- the catalog
\* the admin product routes
CatalogSteps(r) ==
    \/ \E s \in Sessions, b \in CreateBodies : ProductCreateRequireAdmin(r, s, b)
    \/ \E id \in ProductIds, ok \in BOOLEAN : ProductCreate(r, id, ok)
    \/ \E s \in Sessions, id \in ProductIds, b \in UpdateBodies : ProductUpdateRequireAdmin(r, s, id, b)
    \/ \E ok \in BOOLEAN : ProductUpdate(r, ok)
    \/ \E s \in Sessions, id \in ProductIds : ProductDeleteRequireAdmin(r, s, id)
    \/ \E ok \in BOOLEAN : ProductDelete(r, ok)

\* purchases and the admin product routes
NextCatalog ==
    \E r \in Reqs :
        \/ \E s \in Sessions, p \in ProductIds, ok \in BOOLEAN : PurchaseGetUser(r, s, p, ok)
        \/ \E ok \in BOOLEAN : PurchaseGetProduct(r, ok)
        \/ \E ok \in BOOLEAN : PurchaseUpdateStock(r, ok)
        \/ \E ok \in BOOLEAN : PurchaseUpdateBalance(r, ok)
        \/ \E ok \in BOOLEAN : PurchaseCreatePurchase(r, ok)
        \/ \E ok \in BOOLEAN : PurchaseCreateTransaction(r, ok)
        \/ CatalogSteps(r)

SpecCatalog == Init /\ [][NextCatalog]_vars

\* purchases, and admin product updates that rename or reprice
NextPricing ==
    \E r \in Reqs :
        \/ \E s \in Sessions, p \in ProductIds, ok \in BOOLEAN : PurchaseGetUser(r, s, p, ok)
        \/ \E ok \in BOOLEAN : PurchaseGetProduct(r, ok)
        \/ \E ok \in BOOLEAN : PurchaseUpdateStock(r, ok)
        \/ \E ok \in BOOLEAN : PurchaseUpdateBalance(r, ok)
        \/ \E ok \in BOOLEAN : PurchaseCreatePurchase(r, ok)
        \/ \E ok \in BOOLEAN : PurchaseCreateTransaction(r, ok)
        \/ \E s \in Sessions, id \in ProductIds, b \in PricingBodies : ProductUpdateRequireAdmin(r, s, id, b)
        \/ \E ok \in BOOLEAN : ProductUpdate(r, ok)

SpecPricing == Init /\ [][NextPricing]_vars

\* ---------------------------------------------------------- the history
\* purchases and top-ups, and the two routes that list a caller's records
NextHistory ==
    \/ NextWallet
    \/ \E r \in Reqs, s \in Sessions, ok \in BOOLEAN : GetPurchases(r, s, ok)
    \/ \E r \in Reqs, s \in Sessions, ok \in BOOLEAN : GetTransactions(r, s, ok)

SpecHistory == Init /\ [][NextHistory]_vars

\* ------------------------------------------------------------- the bans
\* purchases, and bans with any JSON value as banned and any id as target
NextBan ==
    \E r \in Reqs :
        \/ \E s \in Sessions, p \in ProductIds, ok \in BOOLEAN : PurchaseGetUser(r, s, p, ok)
        \/ \E ok \in BOOLEAN : PurchaseGetProduct(r, ok)
        \/ \E ok \in BOOLEAN : PurchaseUpdateStock(r, ok)
        \/ \E ok \in BOOLEAN : PurchaseUpdateBalance(r, ok)
        \/ \E ok \in BOOLEAN : PurchaseCreatePurchase(r, ok)
        \/ \E ok \in BOOLEAN : PurchaseCreateTransaction(r, ok)
        \/ \E s \in Sessions, t \in TargetIds, b \in BannedBodies : BanBody(r, s, t, b)
        \/ \E ok \in BOOLEAN : BanUpdateUserBanned(r, ok)

SpecBan == Init /\ [][NextBan]_vars

\* ------------------------------------------------------- the wallet credits
\* request bodies whose amount is a number of Amounts
NumberBodies == {[type |-> "number", value |-> a] : a \in Amounts}

\* top-ups and admin balance additions
NextCredit ==
    \E r \in Reqs :
        \/ \E s \in Sessions, a \in Amounts, ok \in BOOLEAN : TopUpGetUser(r, s, a, ok)
        \/ \E ok \in BOOLEAN : TopUpUpdateBalance(r, ok)
        \/ \E ok \in BOOLEAN : TopUpCreateTransaction(r, ok)
        \/ \E s \in Sessions, t \in TargetIds, b \in NumberBodies : AddBalanceRequireAdmin(r, s, t, b)
        \/ \E ok \in BOOLEAN : AddBalanceGetUser(r, ok)
        \/ \E ok \in BOOLEAN : AddBalanceUpdateBalance(r, ok)
        \/ \E ok \in BOOLEAN : AddBalanceCreateTransaction(r, ok)

SpecCredit == Init /\ [][NextCredit]_vars

\* the same, the amount of a body being any JSON value of JsonAmounts
NextAmounts ==
    \/ NextCredit
    \/ \E r \in Reqs, s \in Sessions, b \in JsonAmounts, ok \in BOOLEAN : TopUpBody(r, s, b, ok)
    \/ \E r \in Reqs, s \in Sessions, t \in TargetIds, b \in JsonAmounts :
          AddBalanceRequireAdmin(r, s, t, b)

SpecAmounts == Init /\ [][NextAmounts]_vars

\* ------------------------------------------------------ every writer
\* Every route that writes the store, each called by a caller it accepts
\* (alice for her own wallet, the admin for the admin routes) with a body it
\* accepts, on the user and the product that exist.
NextAudit ==
    \E r \in Reqs :
        \/ \E ok \in BOOLEAN : PurchaseGetUser(r, "alice", "p1", ok)
        \/ \E ok \in BOOLEAN : PurchaseGetProduct(r, ok)
        \/ \E ok \in BOOLEAN : PurchaseUpdateStock(r, ok)
        \/ \E ok \in BOOLEAN : PurchaseUpdateBalance(r, ok)
        \/ \E ok \in BOOLEAN : PurchaseCreatePurchase(r, ok)
        \/ \E ok \in BOOLEAN : PurchaseCreateTransaction(r, ok)
        \/ \E ok \in BOOLEAN : TopUpGetUser(r, "alice", Price, ok)
        \/ \E ok \in BOOLEAN : TopUpUpdateBalance(r, ok)
        \/ \E ok \in BOOLEAN : TopUpCreateTransaction(r, ok)
        \/ AddBalanceRequireAdmin(r, "admin", "alice", [type |-> "number", value |-> Price])
        \/ \E ok \in BOOLEAN : AddBalanceGetUser(r, ok)
        \/ \E ok \in BOOLEAN : AddBalanceUpdateBalance(r, ok)
        \/ \E ok \in BOOLEAN : AddBalanceCreateTransaction(r, ok)
        \/ BanRequireAdmin(r, "admin", "alice", TRUE)
        \/ \E ok \in BOOLEAN : BanUpdateUserBanned(r, ok)
        \/ ProductCreateRequireAdmin(r, "admin", NewProductBody(Price))
        \/ \E id \in ProductIds, ok \in BOOLEAN : ProductCreate(r, id, ok)
        \/ \E b \in PricingBodies : ProductUpdateRequireAdmin(r, "admin", "p1", b)
        \/ \E ok \in BOOLEAN : ProductUpdate(r, ok)
        \/ ProductDeleteRequireAdmin(r, "admin", "p1")
        \/ \E ok \in BOOLEAN : ProductDelete(r, ok)

SpecAudit == Init /\ [][NextAudit]_vars

\* ------------------------------------------ store failures outside a try
\* The admin routes: requireAdmin runs before each of their handlers.
AdminKinds == {"users", "ban", "addBalance", "createProduct", "updateProduct",
               "deleteProduct"}

\* requireAdmin when its `await storage.getUser` throws. The middleware has no
\* try / catch, so its promise rejects: a router that forwards a rejected
\* promise to the error handler (Express 5) answers 500 "Internal Server
\* Error"; one that ignores the returned promise (Express 4) sends nothing,
\* and nothing else ever answers the request.
RequireAdminThrows(r, s, kind, forwarded) ==
    /\ Arrives(r)
    /\ s # NoSession
    /\ LET q == [req EXCEPT ![r].kind = kind, ![r].sess = s]
       IN  req' = IF forwarded THEN Respond(q, r, 500, "Internal Server Error")
                  ELSE [q EXCEPT ![r].pc = "hung"]
    /\ UNCHANGED <<store, serverless>>

\* GET /api/auth/me: the session check, `await getUser` outside any try, the
\* check on its result, then res.json(userWithoutPassword)
AuthMe(r, s, ok, forwarded) ==
    /\ Arrives(r)
    /\ (s = NoSession \/ ok) => forwarded      \* nothing is thrown
    /\ LET user == getUser(s)
           q == [req EXCEPT ![r].kind = "me", ![r].sess = s]
       IN  req' =
             IF s = NoSession
             THEN Respond([req EXCEPT ![r].kind = "me"], r, 401, "Not authenticated")
             ELSE IF ~ok
             THEN (IF forwarded THEN Respond(q, r, 500, "Internal Server Error")
                   ELSE [q EXCEPT ![r].pc = "hung"])
             ELSE IF ~user.exists THEN Respond(q, r, 401, "User not found")
             ELSE [q EXCEPT ![r].pc = "done", ![r].status = 200, ![r].user = user]
    /\ UNCHANGED <<store, serverless>>

\* the ledger, GET /api/auth/me, and store failures inside requireAdmin
NextFailures ==
    \/ Next
    \/ \E r \in Reqs, s \in Sessions \cup {OrphanSession}, ok, f \in BOOLEAN : AuthMe(r, s, ok, f)
    \/ \E r \in Reqs, s \in UserIds, k \in AdminKinds, f \in BOOLEAN : RequireAdminThrows(r, s, k, f)

SpecFailures == Init /\ [][NextFailures]_vars

\* ------------------------------------------------ POST /api/auth/register
\* the email member of a register body: the admin's address, another
\* address, and a string that is no address ("" fails z.string().email())
RegisterEmails == {AdminEmail, "alice@example.com", ""}

\* registerSchema.safeParse, for a body whose password is long enough
RegisterValid(email) == email # ""

\* safeParse, `await getUserByEmail(email)` and the check on its result
RegisterGetUserByEmail(r, email, ok) ==
    /\ Arrives(r)
    /\ ~RegisterValid(email) => ok           \* no store call is made
    /\ LET q == [req EXCEPT ![r].kind = "register", ![r].email = email]
       IN  req' =
             IF ~RegisterValid(email) THEN Respond(q, r, 400, "Invalid email address")
             ELSE IF ~ok
             THEN Respond([q EXCEPT ![r].error = "store"], r, 500, "Registration failed")
             ELSE IF getUserByEmail(email) THEN Respond(q, r, 400, "Email already registered")
             ELSE [q EXCEPT ![r].pc = "createUser"]
    /\ UNCHANGED <<store, serverless>>

\* `await bcrypt.hash` (no shared state is touched), isAdmin, `await
\* createUser({...})`, req.session.userId = user.id, then res.status(201)
RegisterCreateUser(r, id, ok) ==
    /\ req[r].kind = "register" /\ req[r].pc = "createUser"
    /\ ~users[id].exists
    /\ IF ~ok
       THEN /\ req' = Respond([req EXCEPT ![r].error = "store"], r, 500, "Registration failed")
            /\ UNCHANGED <<store, serverless>>
       ELSE IF EmailIndexRejects(req[r].email)
       THEN /\ req' = Respond([req EXCEPT ![r].error = "E11000"], r, 500, "Registration failed")
            /\ UNCHANGED <<store, serverless>>
       ELSE /\ users' = createUser(id, req[r].email, IsAdminEmail(req[r].email))
            /\ req' = [req EXCEPT ![r].pc = "done", ![r].status = 201, ![r].sess = id,
                                  ![r].user = users'[id],
                                  ![r].writes = @ \cup {"user"}]
            /\ UNCHANGED <<products, purchases, transactions, serverless>>

\* the store before anybody has registered: no User document, the product
\* of Init, no record
InitRegister ==
    /\ users = [u \in UserIds |-> NoUser]
    /\ \E s \in InitStocks :
         products = [p \in ProductIds |->
                        IF p = "p1"
                        THEN [exists |-> TRUE, name |-> "n1", price |-> Price, stockData |-> s]
                        ELSE NoProduct]
    /\ purchases = <<>>
    /\ transactions = <<>>
    /\ req = [r \in Reqs |-> IdleReq]
    /\ Registered

NextRegister ==
    \E r \in Reqs :
        \/ \E e \in RegisterEmails, ok \in BOOLEAN : RegisterGetUserByEmail(r, e, ok)
        \/ \E id \in UserIds, ok \in BOOLEAN : RegisterCreateUser(r, id, ok)

SpecRegister == InitRegister /\ [][NextRegister]_vars

\* ------------------------------------------------- every balance writer
\* Purchases, top-ups and admin balance additions that pass the session and
\* body checks: each by a user with a document (the admin for the admin
\* route), with a valid amount, on the product that exists.
NextBalance ==
    \E r \in Reqs :
        \/ \E s \in UserIds, ok \in BOOLEAN : PurchaseGetUser(r, s, "p1", ok)
        \/ \E ok \in BOOLEAN : PurchaseGetProduct(r, ok)
        \/ \E ok \in BOOLEAN : PurchaseUpdateStock(r, ok)
        \/ \E ok \in BOOLEAN : PurchaseUpdateBalance(r, ok)
        \/ \E ok \in BOOLEAN : PurchaseCreatePurchase(r, ok)
        \/ \E ok \in BOOLEAN : PurchaseCreateTransaction(r, ok)
        \/ \E s \in UserIds, ok \in BOOLEAN : TopUpGetUser(r, s, Price, ok)
        \/ \E ok \in BOOLEAN : TopUpUpdateBalance(r, ok)
        \/ \E ok \in BOOLEAN : TopUpCreateTransaction(r, ok)
        \/ \E t \in UserIds :
              AddBalanceRequireAdmin(r, "admin", t, [type |-> "number", value |-> Price])
        \/ \E ok \in BOOLEAN : AddBalanceGetUser(r, ok)
        \/ \E ok \in BOOLEAN : AddBalanceUpdateBalance(r, ok)
        \/ \E ok \in BOOLEAN : AddBalanceCreateTransaction(r, ok)

SpecBalance == Init /\ [][NextBalance]_vars


\* ---------------------------------------- api/index.ts: the serverless handler
\* A handler invocation occupies a request slot until its response is out; the
\* process then serves the next invocation in that slot.  registerRoutes awaits
\* connectDB before it touches the app, so other invocations run while it is
\* pending; when it fails it has installed nothing.  An invocation that waits
\* keeps in `seen` the number of the registerRoutes call it waits for.
Waiting(r) == req[r].kind = "invoke" /\ req[r].pc = "awaitRegister"

\* the cold process: nothing registered yet
InitServerless ==
    /\ users = [u \in UserIds |-> NoUser]
    /\ products = [p \in ProductIds |-> NoProduct]
    /\ purchases = <<>>
    /\ transactions = <<>>
    /\ req = [r \in Reqs |-> IdleReq]
    /\ routesRegistered = FALSE
    /\ registerPromise = "null"
    /\ registerCalls = 0
    /\ installs = 0

\* if (!registerPromise): this invocation is the one that calls registerRoutes
NoRegisterPromise_Always == TRUE
NoRegisterPromise == registerPromise = "null"

\* what the settled registration leaves in registerPromise: the fulfilled
\* promise, or null (the catch block's reset)
SettledPromise_Kept(ok) == IF ok THEN "fulfilled" ELSE "rejected"
SettledPromise(ok) == IF ok THEN "fulfilled" ELSE "null"

\* handler, up to the await in ensureRoutesRegistered: registered already
\* -> app(req, res); no promise -> call registerRoutes and keep its promise;
\* then wait for the promise
EnsureRoutesRegistered(r) ==
    /\ req[r].pc = "idle"
    /\ LET q == [req EXCEPT ![r].kind = "invoke"]
       IN IF routesRegistered
          THEN /\ req' = [q EXCEPT ![r].pc = "dispatched"]
               /\ UNCHANGED serverless
          ELSE /\ IF NoRegisterPromise
                  THEN /\ registerCalls < MaxCalls
                       /\ registerPromise' = "pending"
                       /\ registerCalls' = registerCalls + 1
                  ELSE UNCHANGED <<registerPromise, registerCalls>>
               /\ req' = [q EXCEPT ![r].pc = "awaitRegister",
                                   ![r].seen = registerCalls']
               /\ UNCHANGED <<routesRegistered, installs>>
    /\ UNCHANGED store

\* the registration settles: registerRoutes returned (the app now has the
\* session middleware and the routes, routesRegistered = true) or threw
\* (registerPromise = null, the error is rethrown).  Settling queues the
\* continuation of every invocation that awaits this promise.
RegisterRoutesSettles(ok) ==
    /\ registerPromise = "pending"
    /\ registerPromise' = SettledPromise(ok)
    /\ IF ok
       THEN /\ installs' = installs + 1
            /\ routesRegistered' = TRUE
       ELSE UNCHANGED <<routesRegistered, installs>>
    /\ req' = [r \in Reqs |->
                 IF Waiting(r)
                 THEN [req[r] EXCEPT !.pc = IF ok THEN "awaitReturns" ELSE "awaitThrows"]
                 ELSE req[r]]
    /\ UNCHANGED <<store, registerCalls>>

\* the continuation of a waiting invocation: app(req, res), or the catch
\* block's 500
HandlerResumes(r) ==
    /\ req[r].kind = "invoke"
    /\ req[r].pc \in {"awaitReturns", "awaitThrows"}
    /\ req' = IF req[r].pc = "awaitReturns"
              THEN [req EXCEPT ![r].pc = "dispatched"]
              ELSE Respond(req, r, 500, "Internal server error")
    /\ UNCHANGED <<store, serverless>>

\* the invocation is over; its slot serves the next one
InvocationEnds(r) ==
    /\ req[r].kind = "invoke"
    /\ req[r].pc \in {"dispatched", "done", "rejected"}
    /\ req' = [req EXCEPT ![r] = IdleReq]
    /\ UNCHANGED <<store, serverless>>

NextServerless ==
    \/ \E r \in Reqs : EnsureRoutesRegistered(r)
    \/ \E ok \in BOOLEAN : RegisterRoutesSettles(ok)
    \/ \E r \in Reqs : HandlerResumes(r)
    \/ \E r \in Reqs : InvocationEnds(r)

SpecServerless == InitServerless /\ [][NextServerless]_vars

\* The handler guarded by the boolean alone: each invocation that finds
\* routesRegistered false calls registerRoutes itself
HandlerBoolean(r) ==
    /\ req[r].pc = "idle"
    /\ LET q == [req EXCEPT ![r].kind = "invoke"]
       IN IF routesRegistered
          THEN /\ req' = [q EXCEPT ![r].pc = "dispatched"]
               /\ UNCHANGED registerCalls
          ELSE /\ registerCalls < MaxCalls
               /\ registerCalls' = registerCalls + 1
               /\ req' = [q EXCEPT ![r].pc = "registerRoutes",
                                   ![r].seen = registerCalls']
    /\ UNCHANGED <<store, routesRegistered, registerPromise, installs>>

\* this invocation's registerRoutes returns (the app has the session
\* middleware and the routes once more, routesRegistered = true, then
\* app(req, res)) or throws (nothing catches it: the handler's promise rejects)
RegisterRoutesReturns(r, ok) ==
    /\ req[r].kind = "invoke"
    /\ req[r].pc = "registerRoutes"
    /\ IF ok
       THEN /\ installs' = installs + 1
            /\ routesRegistered' = TRUE
            /\ req' = [req EXCEPT ![r].pc = "dispatched"]
       ELSE /\ req' = [req EXCEPT ![r].pc = "rejected"]
            /\ UNCHANGED <<routesRegistered, installs>>
    /\ UNCHANGED <<store, registerPromise, registerCalls>>

NextBoolean ==
    \/ \E r \in Reqs : HandlerBoolean(r)
    \/ \E r \in Reqs, ok \in BOOLEAN : RegisterRoutesReturns(r, ok)
    \/ \E r \in Reqs : InvocationEnds(r)

SpecBoolean == InitServerless /\ [][NextBoolean]_vars


\* ------------------------------------------------- GET /api/admin/users
\* storage.getAllUsers: UserModel.find()
getAllUsers == {users[u] : u \in {v \in UserIds : users[v].exists}}

\* requireAdmin, for the user listing
AdminUsersRequireAdmin(r, s) ==
    /\ Arrives(r)
    /\ req' = RequireAdmin("users", r, s,
                  [req EXCEPT ![r].kind = "users", ![r].sess = s, ![r].pc = "getAllUsers"])
    /\ UNCHANGED <<store, serverless>>

\* the handler: `await getAllUsers()`; the response is the users read
\* (without their passwords), of which `seen` keeps the number
AdminUsersGetAllUsers(r, ok) ==
    /\ req[r].kind = "users" /\ req[r].pc = "getAllUsers"
    /\ req' = IF ~ok THEN Respond(req, r, 500, "Failed to fetch users")
              ELSE [req EXCEPT ![r].pc = "done", ![r].status = 200,
                               ![r].seen = Cardinality(getAllUsers)]
    /\ UNCHANGED <<store, serverless>>

\* ------------------------------------- registration and the admin routes
\* A session is that of a user who registered or logged in: User documents
\* are never deleted, so the user of a session exists.
Callers == {s \in Sessions : s \in UserIds => users[s].exists}

\* Users register, and every admin route is called, by anybody.
NextAdmin ==
    \E r \in Reqs :
        \/ \E e \in RegisterEmails, ok \in BOOLEAN : RegisterGetUserByEmail(r, e, ok)
        \/ \E id \in UserIds, ok \in BOOLEAN : RegisterCreateUser(r, id, ok)
        \/ \E s \in Callers : AdminUsersRequireAdmin(r, s)
        \/ \E ok \in BOOLEAN : AdminUsersGetAllUsers(r, ok)
        \/ \E s \in Callers, t \in UserIds : BanRequireAdmin(r, s, t, TRUE)
        \/ \E ok \in BOOLEAN : BanUpdateUserBanned(r, ok)
        \/ \E s \in Callers, t \in UserIds :
              AddBalanceRequireAdmin(r, s, t, [type |-> "number", value |-> Price])
        \/ \E ok \in BOOLEAN : AddBalanceGetUser(r, ok)
        \/ \E ok \in BOOLEAN : AddBalanceUpdateBalance(r, ok)
        \/ \E ok \in BOOLEAN : AddBalanceCreateTransaction(r, ok)
        \/ \E s \in Callers : ProductCreateRequireAdmin(r, s, NewProductBody(Price))
        \/ \E ok \in BOOLEAN : ProductCreate(r, "p2", ok)
        \/ \E s \in Callers : ProductUpdateRequireAdmin(r, s, "p1", PriceBody(2 * Price))
        \/ \E ok \in BOOLEAN : ProductUpdate(r, ok)
        \/ \E s \in Callers : ProductDeleteRequireAdmin(r, s, "p1")
        \/ \E ok \in BOOLEAN : ProductDelete(r, ok)
        \/ \E s \in Callers \ {NoSession}, k \in AdminKinds, f \in BOOLEAN :
              RequireAdminThrows(r, s, k, f)

SpecAdmin == InitRegister /\ [][NextAdmin]_vars

\* =================================================================== claims
Done(r) == req[r].pc = "done"
Succeeded(r) == Done(r) /\ req[r].status = 200
IsPurchase(r) == req[r].kind = "purchase"
OutOfStock(r) == Done(r) /\ req[r].status = 400 /\ req[r].message = "Product is out of stock"
Insufficient(r) == Done(r) /\ req[r].status = 400 /\ req[r].message = "Insufficient balance"

\* the net of user u's ledger entries: credits minus purchases
RECURSIVE Net(_, _)
Net(txs, u) ==
    IF txs = <<>> THEN 0
    ELSE (IF Head(txs).userId # u THEN 0
          ELSE IF Head(txs).type = "purchase" THEN 0 - Head(txs).amount
          ELSE Head(txs).amount) + Net(Tail(txs), u)

\* the stock items user s has bought
Bought(s) == {purchases[i].stockData : i \in {j \in 1..Len(purchases) : purchases[j].userId = s}}

\* C1: of two Purchase requests for the same product that both arrived while
\* its stock list held exactly one item, by existing, non-banned callers whose
\* balance covers the price, and that both got a response other than a store
\* failure, exactly one succeeded and the other was refused as out of stock
\* (or with a 409 conflict).
C1_ExactlyOneSucceeds ==
    \A r1, r2 \in Reqs :
        ( /\ r1 # r2
          /\ \A r \in {r1, r2} :
               /\ IsPurchase(r) /\ Done(r) /\ req[r].status # 500
               /\ req[r].pid = req[r1].pid
               /\ Len(req[r].stock0) = 1
               /\ req[r].user.exists /\ ~req[r].user.isBanned
               /\ products[req[r].pid].exists
               /\ req[r].user.balance >= products[req[r].pid].price )
        => /\ Cardinality({r \in {r1, r2} : Succeeded(r)}) = 1
           /\ \A r \in {r1, r2} : Succeeded(r) \/ OutOfStock(r) \/ req[r].status = 409

\* C2: no two Purchase records carry the same stock item, and the item of a
\* completed successful Purchase is not in the product's stock list.
C2_ConsumedAtMostOnce ==
    /\ \A i, j \in 1..Len(purchases) : i # j => purchases[i].stockData # purchases[j].stockData
    /\ \A r \in Reqs : IsPurchase(r) /\ Succeeded(r)
          => req[r].stockItem \notin Range(products[req[r].pid].stockData)

\* C3: when no request is in flight and every Purchase and TopUp request that
\* was made returned success, each user's stored balance equals the net of
\* that user's Transaction records (credits minus purchase prices).
C3_NoLostBalanceUpdate ==
    ( /\ \A r \in Reqs : req[r].pc \in {"idle", "done"}
      /\ \A r \in Reqs : Done(r) /\ req[r].kind \in {"purchase", "topup"} => Succeeded(r) )
    => \A u \in UserIds : users[u].balance = Net(transactions, u)

\* C4: a Purchase request that ended in an error response has applied none
\* of the four store mutations.
C4_ErrorLeavesStateUnchanged ==
    \A r \in Reqs : IsPurchase(r) /\ Done(r) /\ req[r].status # 200 => req[r].writes = {}

\* C5: for a successful Purchase, the stock list stored by the request's write
\* is the list the request read from the store less its first element, and
\* that first element is the item in the response and in the Purchase record
\* the request created.
C5_SuccessPopsFirstItem ==
    \A r \in Reqs : IsPurchase(r) /\ Succeeded(r) =>
        LET before == req[r].product.stockData
            after == req[r].stockAfter
        IN  /\ Len(after) = Len(before) - 1
            /\ before = <<req[r].stockItem>> \o after
            /\ req[r].stockData = {req[r].stockItem}
            /\ req[r].purchase.stockData = req[r].stockItem
            /\ \E i \in 1..Len(purchases) :
                 purchases[i].by = r /\ purchases[i].stockData = req[r].stockItem

\* a Purchase succeeded on a two-item list and left the second item in stock
C5_Witness ==
    \E r \in Reqs : /\ IsPurchase(r) /\ Succeeded(r)
                    /\ Len(req[r].product.stockData) = 2
                    /\ req[r].stockAfter = <<Keys[2]>>

\* C6: for a successful Purchase, the balance stored by the request's write is
\* the balance the request read from the store minus the price it read, and
\* the request appended exactly one Transaction, of type purchase, for the
\* buyer, with amount equal to that price.
C6_SuccessDebitsPrice ==
    \A r \in Reqs : IsPurchase(r) /\ Succeeded(r) =>
        LET mine == {i \in 1..Len(transactions) : transactions[i].by = r}
        IN  /\ req[r].balanceAfter = req[r].user.balance - req[r].product.price
            /\ Cardinality(mine) = 1
            /\ \A i \in mine : /\ transactions[i].type = "purchase"
                               /\ transactions[i].amount = req[r].product.price
                               /\ transactions[i].userId = req[r].sess

\* a Purchase succeeded for a buyer who had twice the price
C6_Witness ==
    \E r \in Reqs : /\ IsPurchase(r) /\ Succeeded(r)
                    /\ req[r].user.balance = 2 * Price
                    /\ req[r].balanceAfter = Price

\* C7: a Purchase or TopUp request whose session user was banned when the
\* request arrived applies no store mutation and is answered 403 (a request
\* with an invalid body, 400, or one that met a store failure, 500, is not
\* held against the claim here).
C7_BannedUserForbidden ==
    \A r \in Reqs :
        req[r].kind \in {"purchase", "topup"} /\ req[r].sess # NoSession /\ req[r].banned0
        => /\ Done(r) /\ req[r].status \notin {400, 500} => req[r].status = 403
           /\ req[r].writes = {}

\* C8: the stock items in any response body are items the caller has bought.
C8_StockRevealedOnlyToBuyer ==
    \A r \in Reqs : Done(r) => req[r].stockData \subseteq Bought(req[r].sess)

\* C9: a Purchase request (its caller existing and not banned) that read an
\* existing product with an empty stock list is answered 400 "Product is out
\* of stock", whatever the balance it read, and has applied no store mutation.
C9_EmptyStockIsOutOfStock ==
    \A r \in Reqs :
        IsPurchase(r) /\ req[r].product.exists /\ req[r].product.stockData = <<>>
        => OutOfStock(r) /\ req[r].writes = {}

\* a Purchase took the last item; a later Purchase of the same product, by a
\* caller whose balance is below the price, was refused as out of stock
C9_Witness ==
    \E r1, r2 \in Reqs :
        /\ IsPurchase(r1) /\ Succeeded(r1) /\ req[r1].stockAfter = <<>>
        /\ IsPurchase(r2) /\ OutOfStock(r2) /\ req[r2].pid = req[r1].pid
        /\ req[r2].stock0 = <<>>
        /\ req[r2].user.balance < req[r2].product.price

\* C10: a Purchase request (its caller existing and not banned) that read a
\* product with stock available is answered 400 "Insufficient balance", and
\* has applied no store mutation, when the balance it read is strictly below
\* the price it read; it is never answered so when that balance is at least
\* the price.
C10_InsufficientBalance ==
    \A r \in Reqs :
        IsPurchase(r) /\ req[r].product.exists /\ req[r].product.stockData # <<>>
        => /\ req[r].user.balance < req[r].product.price
                => Insufficient(r) /\ req[r].writes = {}
           /\ req[r].user.balance >= req[r].product.price => ~Insufficient(r)

\* one Purchase succeeded with a balance equal to the price, another was
\* refused for a balance below the price while stock was available
C10_Witness ==
    \E r1, r2 \in Reqs :
        /\ IsPurchase(r1) /\ Succeeded(r1) /\ req[r1].user.balance = req[r1].product.price
        /\ IsPurchase(r2) /\ Insufficient(r2) /\ req[r2].product.stockData # <<>>
        /\ req[r2].user.balance < req[r2].product.price

\* C11: a Purchase request that did not meet a store failure reports the
\* first failing precondition, in the order identity, product, stock, balance:
\* no session or a session whose user does not exist is answered 401, a banned
\* user 403 (whatever the product), a missing product 404, an empty stock 400
\* "Product is out of stock" (whatever the balance), a balance below the price
\* 400 "Insufficient balance"; otherwise the request succeeds.
C11_PreconditionOrder ==
    \A r \in Reqs : IsPurchase(r) /\ Done(r) /\ req[r].status # 500 =>
        IF req[r].sess = NoSession \/ ~req[r].user.exists THEN req[r].status = 401
        ELSE IF req[r].user.isBanned THEN req[r].status = 403
        ELSE IF ~req[r].product.exists THEN req[r].status = 404
        ELSE IF req[r].product.stockData = <<>> THEN OutOfStock(r)
        ELSE IF req[r].user.balance < req[r].product.price THEN Insufficient(r)
        ELSE req[r].status = 200

\* C12: a TopUp or AdminAddBalance request, of a caller that passed the
\* session / admin check, whose amount is not a positive finite number (not a
\* number, zero, negative or infinite) is answered 400 (500 on a store
\* failure) and applies no store mutation.
C12_InvalidAmountRejected ==
    \A r \in Reqs :
        ( /\ req[r].kind \in {"topup", "addBalance"} /\ req[r].pc # "idle"
          /\ req[r].status \notin {401, 403}
          /\ \/ req[r].amountType # "number"
             \/ req[r].amount <= 0
             \/ req[r].amount = Infinity )
        => /\ Done(r) /\ req[r].status # 500 => req[r].status = 400
           /\ req[r].writes = {}

\* the store mutations request r applied in the current step touch no product,
\* no Purchase record and, of the users, at most the balance of user u
OnlyBalanceOf(u) ==
    /\ products' = products
    /\ purchases' = purchases
    /\ \A v \in UserIds :
         users'[v] = IF v = u THEN [users[v] EXCEPT !.balance = users'[v].balance] ELSE users[v]

\* C13: for a successful TopUp, the balance stored by the request's write is
\* the balance the request read plus the amount, the response carries that
\* balance, and the request appended exactly one Transaction, of type topup,
\* for the caller, with that amount; no step of a TopUp request changes a
\* product, a Purchase record or anything of a user but the caller's balance.
C13_TopUpCredits ==
    /\ [](\A r \in Reqs : req[r].kind = "topup" /\ Succeeded(r) =>
            LET mine == {i \in 1..Len(transactions) : transactions[i].by = r}
            IN  /\ req[r].amount > 0
                /\ req[r].balanceAfter = req[r].user.balance + req[r].amount
                /\ req[r].balance = req[r].balanceAfter
                /\ Cardinality(mine) = 1
                /\ \A i \in mine : /\ transactions[i].type = "topup"
                                   /\ transactions[i].amount = req[r].amount
                                   /\ transactions[i].userId = req[r].sess
                /\ \A i \in 1..Len(purchases) : purchases[i].by # r)
    /\ [][\A r \in Reqs : req'[r].kind = "topup" /\ req'[r] # req[r]
              => OnlyBalanceOf(req'[r].sess)]_vars

\* a TopUp of Price succeeded for a user whose balance was Price, while the
\* store holds a Purchase record and another user
C13_Witness ==
    \E r \in Reqs : /\ req[r].kind = "topup" /\ Succeeded(r)
                    /\ req[r].user.balance = Price /\ req[r].amount = Price
                    /\ req[r].balanceAfter = 2 * Price
                    /\ users[req[r].sess].balance = 2 * Price
                    /\ purchases # <<>>

C15_BanChangesOnlyFlag ==
    /\ [](\A r \in Reqs : req[r].kind = "ban" /\ req[r].status \notin {401, 403} =>
            /\ req[r].bannedType # "boolean" => req[r].status = 400 /\ req[r].writes = {}
            /\ req[r].bannedType = "boolean" /\ req[r].target \notin UserIds
                  => /\ Done(r) /\ req[r].status # 500 => req[r].status = 404
                     /\ req[r].writes = {})
    /\ [][\A r \in Reqs : req'[r].kind = "ban" /\ req'[r] # req[r] =>
              /\ products' = products
              /\ purchases' = purchases
              /\ transactions' = transactions
              /\ \A v \in UserIds :
                   users'[v] = IF v = req'[r].target
                               THEN [users[v] EXCEPT !.isBanned = users'[v].isBanned]
                               ELSE users[v]
              /\ req'[r].status = 200 => users'[req'[r].target].isBanned = req'[r].banned]_vars

\* the admin banned alice, who keeps her balance, and a ban request with a banned value that is not a boolean was refused
C15_Witness ==
    \E r1, r2 \in Reqs :
        /\ req[r1].kind = "ban" /\ Succeeded(r1) /\ req[r1].target = "alice" /\ req[r1].banned
        /\ users["alice"].isBanned /\ users["alice"].balance > 0
        /\ req[r2].kind = "ban" /\ req[r2].bannedType # "boolean" /\ req[r2].status = 400

\* C16: a Purchase request that passed its ban check is never answered 403,
\* whatever is written to the isBanned flag afterwards: unless it meets a
\* store failure, it is answered as the checks on the product it read decide,
\* and on success has applied all four mutations; a Purchase request that
\* arrived when the stored flag of its user was set is answered 403 (500 on a
\* store failure) in its first step, without a store mutation.
C16_BanDoesNotReverse ==
    \A r \in Reqs : IsPurchase(r) /\ req[r].sess \in UserIds =>
        /\ req[r].user.exists /\ ~req[r].user.isBanned =>
              /\ req[r].status # 403
              /\ Done(r) /\ req[r].status # 500 =>
                    LET check == PurchaseCheck(req[r].product, req[r].user.balance)
                    IN  IF check[1] = 0
                        THEN /\ req[r].status = 200
                             /\ req[r].writes = {"stock", "balance", "purchase", "transaction"}
                        ELSE req[r].status = check[1] /\ req[r].message = check[2]
        /\ req[r].banned0 => /\ Done(r) /\ req[r].status \in {403, 500}
                             /\ req[r].writes = {}

\* a Purchase that passed its ban check has applied three of its mutations
\* and is about to apply the fourth, while the ban of its user, requested
\* after the Purchase arrived, has been written
C16_Witness ==
    \E r1, r2 \in Reqs :
        /\ IsPurchase(r1) /\ req[r1].pc = "createTransaction" /\ ~req[r1].user.isBanned
        /\ req[r1].writes = {"stock", "balance", "purchase"}
        /\ r1 < r2 /\ req[r2].kind = "ban" /\ Succeeded(r2)
        /\ req[r2].target = req[r1].sess /\ req[r2].banned
        /\ users[req[r1].sess].isBanned

\* C17: the productName and price of every Purchase record, the amount of the
\* Transaction of the same request and the amount by which that request's
\* write lowered the balance it read are the name and price of the one
\* product document the request read, whatever is stored for the product
\* since.
C17_SnapshotOfOneRead ==
    \A r \in Reqs : IsPurchase(r) =>
        /\ \A i \in 1..Len(purchases) : purchases[i].by = r =>
              /\ purchases[i].productName = req[r].product.name
              /\ purchases[i].price = req[r].product.price
              /\ purchases[i].productId = req[r].pid
        /\ \A i \in 1..Len(transactions) : transactions[i].by = r =>
              /\ transactions[i].type = "purchase"
              /\ transactions[i].amount = req[r].product.price
        /\ "balance" \in req[r].writes =>
              req[r].balanceAfter = req[r].user.balance - req[r].product.price

\* a Purchase succeeded at the price and name it read, and the product now
\* stored has another price or another name
C17_Witness ==
    \E r \in Reqs :
        /\ IsPurchase(r) /\ Succeeded(r)
        /\ products[req[r].pid].exists
        /\ \/ products[req[r].pid].price # req[r].product.price
           \/ products[req[r].pid].name # req[r].product.name
        /\ \E i \in 1..Len(purchases) :
              purchases[i].by = r /\ purchases[i].price = req[r].product.price

\* C18: every step leaves each Purchase record and each Transaction record
\* in place and unchanged: both collections only grow, at their end.
C18_RecordsWriteOnce ==
    [][/\ Len(purchases') >= Len(purchases)
       /\ SubSeq(purchases', 1, Len(purchases)) = purchases
       /\ Len(transactions') >= Len(transactions)
       /\ SubSeq(transactions', 1, Len(transactions)) = transactions]_vars

\* a product with a Purchase record was deleted; the record and the ledger
\* entries of the Purchase and of the earlier top-up are in place
C18_Witness ==
    \E r1, r2 \in Reqs :
        /\ IsPurchase(r1) /\ Succeeded(r1)
        /\ req[r2].kind = "deleteProduct" /\ Succeeded(r2) /\ req[r2].pid = req[r1].pid
        /\ ~products[req[r1].pid].exists
        /\ Len(purchases) = 1 /\ purchases[1].by = r1
        /\ Len(transactions) = 2 /\ transactions[1].by = 0 /\ transactions[2].by = r1

\* the position of record x in the collection docs
Pos(docs, x) == CHOOSE i \in 1..Len(docs) : docs[i] = x

\* the array `list` holds, once each, exactly the records of docs whose
\* userId is u, a record created later before one created earlier
ExactlyOwnNewestFirst(list, docs, u) ==
    /\ \A k \in 1..Len(list) : list[k] \in Range(docs) /\ list[k].userId = u
    /\ \A i \in 1..Len(docs) : docs[i].userId = u => docs[i] \in Range(list)
    /\ \A k, l \in 1..Len(list) : k < l => Pos(docs, list[k]) > Pos(docs, list[l])

C20_PricePositive ==
    \A p \in ProductIds : products[p].exists => products[p].price > 0

\* C21: no request is ever left without a response: no request is in the
\* state where its handler has stopped on an exception that nothing catches
\* and no response has been or will be sent.
C21_NoRequestHangs ==
    \A r \in Reqs : req[r].pc # "hung"

\* C22: no two User documents hold the same email, and a register request
\* with a valid body that met no store failure is answered 201, having
\* created its user, or 400, having created none.
C22_DuplicateIs400 ==
    /\ \A u, v \in UserIds :
         u # v /\ users[u].exists /\ users[v].exists => users[u].email # users[v].email
    /\ \A r \in Reqs :
         req[r].kind = "register" /\ Done(r) /\ req[r].error # "store" =>
             \/ req[r].status = 201 /\ req[r].writes = {"user"}
             \/ req[r].status = 400 /\ req[r].writes = {}

\* C23: the stored balance of every user is at least zero.
C23_BalanceNotNegative ==
    \A u \in UserIds : users[u].balance >= 0

\* two Purchases of one user, who could pay for one, both read the balance
\* before either wrote it and both succeeded; the stored balance is zero
C23_Witness ==
    \E r1, r2 \in Reqs :
        /\ r1 # r2 /\ req[r1].sess = req[r2].sess
        /\ \A r \in {r1, r2} : IsPurchase(r) /\ Succeeded(r) /\ req[r].user.balance = Price
        /\ users[req[r1].sess].balance = 0

\* the sum of the prices of user u's Purchase records
RECURSIVE Spent(_, _)
Spent(ps, u) ==
    IF ps = <<>> THEN 0
    ELSE (IF Head(ps).userId = u THEN Head(ps).price ELSE 0) + Spent(Tail(ps), u)

\* the sum of the amounts of user u's topup and admin_add Transactions
RECURSIVE Credited(_, _)
Credited(txs, u) ==
    IF txs = <<>> THEN 0
    ELSE (IF Head(txs).userId = u /\ Head(txs).type \in {"topup", "admin_add"}
          THEN Head(txs).amount ELSE 0) + Credited(Tail(txs), u)

\* C24: for every user, the prices of the user's Purchase records sum to at
\* most the amounts of the user's topup and admin_add Transactions.
C24_NoDoubleSpend ==
    \A u \in UserIds : Spent(purchases, u) <= Credited(transactions, u)

\* C25: when a Purchase of a product and an admin update that replaces the
\* product's stockData with a list S have both succeeded and nothing else was
\* requested, the stored stock list is S or S without its first element, and
\* no item of a Purchase record is in it.
C25_StockReplaceNotUndone ==
    \A r1, r2 \in Reqs :
        ( /\ IsPurchase(r1) /\ Succeeded(r1)
          /\ req[r2].kind = "updateProduct" /\ Succeeded(r2)
          /\ "stockData" \in req[r2].body.has
          /\ req[r2].pid = req[r1].pid
          /\ \A r \in Reqs \ {r1, r2} : req[r].pc = "idle" )
        => /\ products[req[r1].pid].stockData
                \in {req[r2].body.stockData, Slice1(req[r2].body.stockData)}
           /\ \A i \in 1..Len(purchases) :
                purchases[i].stockData \notin Range(products[req[r1].pid].stockData)

\* C26: a Purchase request that comes to write the reduced stock when the
\* product it read has no document any more ends there, answered 404 or 409
\* (500 on a store failure), and applies no mutation: none to the balance,
\* no Purchase record, no Transaction.
C26_DeletedProductNotSold ==
    [][\A r \in Reqs :
          ( /\ IsPurchase(r) /\ req[r].pc = "updateStock"
            /\ ~products[req[r].pid].exists
            /\ req'[r] # req[r] )
          => /\ req'[r].pc = "done" /\ req'[r].status \in {404, 409, 500}
             /\ req'[r].writes = {}
             /\ UNCHANGED store]_vars

Dispatched(r) == req[r].kind = "invoke" /\ req[r].pc = "dispatched"

\* C27: with ensureRoutesRegistered, overlapping invocations share one
\* registration: a step never calls registerRoutes while a registration is
\* pending or has succeeded, and an invocation is dispatched to the app only
\* once the registration has succeeded.
C27_OneSharedRegistration ==
    [][ /\ (registerPromise # "null" \/ routesRegistered)
            => registerCalls' = registerCalls
        /\ \A r \in Reqs :
              (~Dispatched(r) /\ Dispatched(r)')
                 => (routesRegistered /\ installs = 1) ]_vars

\* C27 witness: two invocations waited for the same registerRoutes call, the
\* only one made, and both were dispatched after it.
C27_Witness ==
    /\ \A r \in {1, 2} : Dispatched(r) /\ req[r].seen = 1
    /\ registerCalls = 1
    /\ installs = 1

\* C28: with ensureRoutesRegistered, when registerRoutes fails, routesRegistered
\* stays false, registerPromise is null again and every invocation that waited
\* for that registration is left to answer 500, which it does without being
\* dispatched; the next invocation then calls registerRoutes afresh; and once
\* a registration has succeeded registerRoutes is never called again.
C28_FailureIsRetried ==
    [][ /\ (registerPromise = "pending" /\ registerPromise' # "pending" /\ installs' = installs)
            => /\ ~routesRegistered' /\ registerPromise' = "null"
               /\ \A r \in Reqs : Waiting(r) => req'[r].pc = "awaitThrows"
        /\ \A r \in Reqs :
              (req[r].pc = "awaitThrows" /\ req'[r] # req[r])
                 => (req'[r].pc = "done" /\ req'[r].status = 500)
        /\ \A r \in Reqs :
              (req[r].pc = "idle" /\ req'[r].pc # "idle"
                 /\ ~routesRegistered /\ registerPromise # "pending")
                 => /\ registerCalls' = registerCalls + 1
                    /\ registerPromise' = "pending"
                    /\ req'[r].seen = registerCalls'
        /\ installs >= 1 => registerCalls' = registerCalls ]_vars

\* C28 witness: the first registerRoutes call failed and its waiter answered
\* 500; the next invocation made the second call and was dispatched after it.
C28_Witness ==
    /\ req[1].kind = "invoke" /\ req[1].seen = 1
    /\ req[1].pc = "done" /\ req[1].status = 500
    /\ Dispatched(2) /\ req[2].seen = 2
    /\ registerCalls = 2
    /\ installs = 1

\* C29: with the boolean guard alone, the session middleware and the routes
\* are installed on the app at most once in the life of the process.
C29_InstalledOnce == installs <= 1

\* a request to an admin route by a caller whose User document has isAdmin
\* false
NonAdminCall(r) ==
    /\ req[r].kind \in AdminKinds
    /\ req[r].sess \in UserIds
    /\ ~users[req[r].sess].isAdmin

\* C30: a User document has isAdmin true exactly when it was registered with
\* admin@grow4bot.com; no step changes the isAdmin of an existing user; and a
\* request to an admin route (user listing, ban, balance addition, product
\* create / update / delete) by a caller whose isAdmin is false is over in its
\* first step, answered 403 Forbidden (unless the guard's own read of the
\* caller threw), and no step of it changes the store.
C30_AdminFixedAtRegistration ==
    /\ [](\A u \in UserIds : users[u].exists =>
             (users[u].isAdmin <=> users[u].email = AdminEmail))
    /\ [](\A r \in Reqs : NonAdminCall(r) =>
             \/ Done(r) /\ req[r].status = 403
                        /\ req[r].message = "Forbidden - Admin access required"
             \/ req[r].pc = "hung"
             \/ Done(r) /\ req[r].status = 500 /\ req[r].message = "Internal Server Error")
    /\ [][ /\ \A u \in UserIds : users[u].exists => users'[u].isAdmin = users[u].isAdmin
           /\ \A r \in Reqs : NonAdminCall(r)' /\ req'[r] # req[r] => UNCHANGED store ]_vars

\* C30 witness: a user registered with another address and the user listing
\* they then asked for was answered 403, nothing but their own document
\* having been written.
C30_Witness ==
    /\ req[1].kind = "register" /\ req[1].status = 201
    /\ req[1].email = "alice@example.com"
    /\ ~users[req[1].sess].isAdmin
    /\ req[2].kind = "users" /\ req[2].sess = req[1].sess
    /\ Done(2) /\ req[2].status = 403
====
